---- MODULE Spec2Model ----
(***************************************************************************)
(* POTA (Please Over The Air): model of the update-check protocol of       *)
(* src/src/POTA.cpp.  C strings are sequences of one-character strings;    *)
(* a null pointer is the value NULL.                                       *)
(***************************************************************************)
EXTENDS Integers, Sequences, FiniteSets, TLC

\* ------------------------------------------------------------------------
\* Strings
\* ------------------------------------------------------------------------
\* a null char pointer (no character equals "NULL", so it is no C string)
NULL == <<"NULL">>

\* n copies of the character c
Rep(c, n) == [i \in 1..n |-> c]

Min(a, b) == IF a <= b THEN a ELSE b

\* strncmp(s, p, strlen(p)) == 0
HasPrefix(s, p) ==
    /\ Len(s) >= Len(p)
    /\ \A i \in 1..Len(p) : s[i] = p[i]

\* strncpy(dst, src, size - 1); dst[size - 1] = '\0'
StrNCpy(src, size) == SubSeq(src, 1, Min(Len(src), size - 1))

DigitChars == <<"0", "1", "2", "3", "4", "5", "6", "7", "8", "9">>

RECURSIVE NatToDec(_)
NatToDec(n) ==
    IF n < 10 THEN <<DigitChars[n + 1]>>
    ELSE NatToDec(n \div 10) \o <<DigitChars[(n % 10) + 1]>>

\* snprintf(timestampStr, sizeof(timestampStr), "%ld", timestampValue)
FormatLong(n) == IF n < 0 THEN <<"-">> \o NatToDec(0 - n) ELSE NatToDec(n)

\* ------------------------------------------------------------------------
\* Program constants
\* ------------------------------------------------------------------------
DEVICETYPE_SIZE == 32
FWVERSION_SIZE == 32
AUTHTOKEN_SIZE == 64
SECRET_SIZE == 65
BUFFER_SIZE == 1024
MESSAGE_SIZE == 512
OTAURL_SIZE == 256

POTA_PROTOCOL_VERSION == <<"0", "1", ".", "0", "0">>

API_HOST == <<"w", "w", "w", ".", "p", "l", "e", "a", "s", "e", "d", "o", "n", "t",
              "c", "o", "d", "e", ".", "c", "o", "m">>

\* "https://" API_HOST
TRUSTED_PREFIX == <<"h", "t", "t", "p", "s", ":", "/", "/">> \o API_HOST

\* ------------------------------------------------------------------------
\* POTAError values returned by the library (POTA.h)
\* ------------------------------------------------------------------------
UpdaterOutcomes ==
    {"SUCCESS", "OTA_FAILED", "OTA_NOT_CAPABLE", "OTA_BEGIN_FAILED",
     "OTA_WIFI_FW_MISSING", "OTA_DOWNLOAD_FAILED", "OTA_DECOMPRESSION_FAILED",
     "OTA_APPLY_FAILED"}

\* ------------------------------------------------------------------------
\* Arguments a sketch may pass to begin / beginClient
\* ------------------------------------------------------------------------
SSID_NET == <<"n", "e", "t">>
PASS_PW == <<"p", "w">>

WifiArgs(valid) == {NULL, <<>>, valid}

DT_SENSOR1 == <<"s", "e", "n", "s", "o", "r", "1">>
FW_100 == <<"1", ".", "0", ".", "0">>
AT_ABC == <<"a", "b", "c">>
SECRET_A == <<"s", "3", "c", "r", "3", "t">>

\* null, empty, a short value, the longest value that fits, the shortest
\* value that does not
FieldArgs(short, c, size) == {NULL, <<>>, short, Rep(c, size - 1), Rep(c, size)}

DeviceTypeArgs == FieldArgs(DT_SENSOR1, "d", DEVICETYPE_SIZE)
FirmwareVersionArgs == FieldArgs(FW_100, "v", FWVERSION_SIZE)
AuthTokenArgs == FieldArgs(AT_ABC, "t", AUTHTOKEN_SIZE)
ServerSecretArgs == FieldArgs(SECRET_A, "k", SECRET_SIZE)

\* the secrets a committed configuration can hold
Secrets == {s \in ServerSecretArgs : s # NULL /\ Len(s) > 0 /\ Len(s) < SECRET_SIZE}

\* !p || strlen(p) == 0
NullOrEmpty(p) == p = NULL \/ Len(p) = 0

\* !p || strlen(p) == 0 || strlen(p) >= sizeof(field)
FieldInvalid(p, size) == p = NULL \/ Len(p) = 0 \/ Len(p) >= size

\* the validation chain of beginClient
BeginClientResult(dt, fw, at, ss) ==
    IF FieldInvalid(dt, DEVICETYPE_SIZE) THEN "PARAMETER_INVALID_DEVICETYPE"
    ELSE IF FieldInvalid(fw, FWVERSION_SIZE) THEN "PARAMETER_INVALID_FWVERSION"
    ELSE IF FieldInvalid(at, AUTHTOKEN_SIZE) THEN "PARAMETER_INVALID_AUTHTOKEN"
    ELSE IF FieldInvalid(ss, SECRET_SIZE) THEN "PARAMETER_INVALID_SECRET"
    ELSE "SUCCESS"

\* the result of begin: the Wi-Fi credentials are validated, then the
\* association is awaited (wifiOk: connected within 30 s), then beginClient
BeginResult(ssid, password, wifiOk, dt, fw, at, ss) ==
    IF NullOrEmpty(ssid) THEN "PARAMETER_INVALID_SSID"
    ELSE IF NullOrEmpty(password) THEN "PARAMETER_INVALID_PASSWORD"
    ELSE IF ~wifiOk THEN "WIFI_CONNECT_FAILED"
    ELSE BeginClientResult(dt, fw, at, ss)

\* the first invalid argument in the parameter order of begin
FirstInvalid(ssid, password, dt, fw, at, ss) ==
    IF NullOrEmpty(ssid) THEN "ssid"
    ELSE IF NullOrEmpty(password) THEN "password"
    ELSE IF FieldInvalid(dt, DEVICETYPE_SIZE) THEN "deviceType"
    ELSE IF FieldInvalid(fw, FWVERSION_SIZE) THEN "firmwareVersion"
    ELSE IF FieldInvalid(at, AUTHTOKEN_SIZE) THEN "authToken"
    ELSE IF FieldInvalid(ss, SECRET_SIZE) THEN "serverSecret"
    ELSE "none"

\* WiFi.begin is reached once both credentials passed validation
WifiAttempted(ssid, password) == ~NullOrEmpty(ssid) /\ ~NullOrEmpty(password)

\* ------------------------------------------------------------------------
\* Request serialisation (checkOTAUpdate, "Build JSON request body")
\* ------------------------------------------------------------------------
\* getSecureMACAddress(): "%02X:%02X:%02X:%02X:%02X:%02X" of the device MAC
MAC_ADDRESS ==
    <<"A", "A", ":", "B", "B", ":", "C", "C", ":", "D", "D", ":", "E", "E",
      ":", "F", "F">>

REQ_DEVICE_ID ==
    <<"{", "\"", "d", "e", "v", "i", "c", "e", "_", "i", "d", "\"", ":",
      "\"">>

REQ_DEVICE_TYPE ==
    <<"\"", ",", "\"", "d", "e", "v", "i", "c", "e", "_", "t", "y", "p",
      "e", "\"", ":", "\"">>

REQ_FIRMWARE_VERSION ==
    <<"\"", ",", "\"", "f", "i", "r", "m", "w", "a", "r", "e", "_", "v",
      "e", "r", "s", "i", "o", "n", "\"", ":", "\"">>

REQ_PROTOCOL_VERSION ==
    <<"\"", ",", "\"", "p", "r", "o", "t", "o", "c", "o", "l", "_", "v",
      "e", "r", "s", "i", "o", "n", "\"", ":", "\"">>

REQ_AUTH_TOKEN ==
    <<"\"", ",", "\"", "a", "u", "t", "h", "_", "t", "o", "k", "e", "n",
      "\"", ":", "\"">>

REQ_CLOSE == <<"\"", "}">>

\* the text the snprintf format of the request produces (untruncated)
RequestBody(dt, fw, at) ==
    REQ_DEVICE_ID \o MAC_ADDRESS \o REQ_DEVICE_TYPE \o dt
      \o REQ_FIRMWARE_VERSION \o fw
      \o REQ_PROTOCOL_VERSION \o POTA_PROTOCOL_VERSION
      \o REQ_AUTH_TOKEN \o at \o REQ_CLOSE

\* bodyLen < 0 || bodyLen >= (int)sizeof(buffer)
RequestOverflow(n) == n < 0 \/ n >= BUFFER_SIZE

\* ------------------------------------------------------------------------
\* Token generation (generateServerToken)
\* ------------------------------------------------------------------------
COLON == <<":">>
STR_TRUE == <<"t", "r", "u", "e">>
STR_FALSE == <<"f", "a", "l", "s", "e">>

\* a message that leaves the notes out
CanonicalMessage_WithoutNotes(update, version, url, checksum, protocol_version, notes, timestamp) ==
    (IF update THEN STR_TRUE ELSE STR_FALSE) \o COLON \o version \o COLON \o url
      \o COLON \o checksum \o COLON \o protocol_version \o COLON \o timestamp

\* snprintf(message, ..., "%s:%s:%s:%s:%s:%s:%s", ...), untruncated
CanonicalMessage(update, version, url, checksum, protocol_version, notes, timestamp) ==
    (IF update THEN STR_TRUE ELSE STR_FALSE) \o COLON \o version \o COLON \o url
      \o COLON \o checksum \o COLON \o protocol_version \o COLON \o notes
      \o COLON \o timestamp

\* a bound check that admits a message of exactly sizeof(message) characters
MessageOverflow_OffByOne(n) == n < 0 \/ n > MESSAGE_SIZE

\* n < 0 || n >= (int)sizeof(message)
MessageOverflow(n) == n < 0 \/ n >= MESSAGE_SIZE

\* A token string.  hmac = TRUE: the 64 lowercase hex characters of
\* HMAC-SHA256(key, text); HMAC is taken as collision-free, so two such
\* strings are equal exactly when key and text are.  hmac = FALSE: the
\* string text, which is no HMAC output of any key and message of the model.
HmacToken(key, text) == [hmac |-> TRUE, key |-> key, text |-> text]
PlainToken(text) == [hmac |-> FALSE, key |-> <<>>, text |-> text]

NoToken == PlainToken(<<>>)

\* generateServerToken: [err, token]
GenerateServerToken(update, version, url, checksum, protocol_version, notes, timestamp, secret) ==
    LET message == CanonicalMessage(update, version, url, checksum,
                                    protocol_version, notes, timestamp)
    IN  IF secret = NULL
        THEN [err |-> "PARAMETER_INVALID_SECRET", token |-> NoToken]
        ELSE IF MessageOverflow(Len(message))
        THEN [err |-> "TOKEN_GENERATION_FAILED", token |-> NoToken]
        ELSE [err |-> "SUCCESS", token |-> HmacToken(secret, message)]

\* a comparison that lets a missing server_token pass
TokenDiffers_TrustsMissingToken(expected, server_token) ==
    server_token # NoToken /\ expected # server_token

\* strcmp(expectedToken, server_token) != 0
TokenDiffers(expected, server_token) == expected # server_token

\* a decision that does not look at the update flag
UpdateAccepted_IgnoresFlag(update, url) == HasPrefix(url, TRUSTED_PREFIX)

\* a decision that does not look at the url
UpdateAccepted_AnyUrl(update, url) == update

\* update && strncmp(url, "https://" API_HOST, strlen("https://" API_HOST)) == 0
UpdateAccepted(update, url) == update /\ HasPrefix(url, TRUSTED_PREFIX)

\* ------------------------------------------------------------------------
\* Server responses
\* ------------------------------------------------------------------------
KEY_UPDATE == <<"u", "p", "d", "a", "t", "e">>
KEY_URL == <<"u", "r", "l">>
KEY_VERSION == <<"v", "e", "r", "s", "i", "o", "n">>
KEY_CHECKSUM == <<"c", "h", "e", "c", "k", "s", "u", "m">>
KEY_PROTOCOL_VERSION ==
    <<"p", "r", "o", "t", "o", "c", "o", "l", "_", "v", "e", "r", "s", "i",
      "o", "n">>
KEY_NOTES == <<"n", "o", "t", "e", "s">>
KEY_SERVER_TOKEN == <<"s", "e", "r", "v", "e", "r", "_", "t", "o", "k", "e", "n">>
KEY_ERROR == <<"e", "r", "r", "o", "r">>
KEY_TIMESTAMP == <<"t", "i", "m", "e", "s", "t", "a", "m", "p">>

\* A response body.  kind: "empty" (no byte), "garbage" (text that is no
\* JSON), "nonobject" (a JSON value that is no object) or "object".  For an
\* object, present is the set of member names it carries and the other
\* fields are their values; bodyLen is the byte length of the body.
NoResponse ==
    [kind |-> "empty", present |-> {}, update |-> FALSE, url |-> <<>>,
     version |-> <<>>, checksum |-> <<>>, protocol_version |-> <<>>,
     notes |-> <<>>, server_token |-> NoToken, error |-> <<>>,
     timestamp |-> 0, bodyLen |-> 0]

\* the number of characters of a token string
TokenLen(t) == IF t.hmac THEN 64 ELSE Len(t.text)

\* byte length of the compact JSON text of an object response
JsonLen(r) ==
    LET Str(k, key, v) == IF k \in r.present THEN Len(key) + Len(v) + 6 ELSE 0
        n == Cardinality(r.present)
    IN  2 + (IF n > 0 THEN n - 1 ELSE 0)
          + (IF "update" \in r.present
             THEN Len(KEY_UPDATE) + 3 + (IF r.update THEN 4 ELSE 5) ELSE 0)
          + Str("url", KEY_URL, r.url)
          + Str("version", KEY_VERSION, r.version)
          + Str("checksum", KEY_CHECKSUM, r.checksum)
          + Str("protocol_version", KEY_PROTOCOL_VERSION, r.protocol_version)
          + Str("notes", KEY_NOTES, r.notes)
          + (IF "server_token" \in r.present
             THEN Len(KEY_SERVER_TOKEN) + TokenLen(r.server_token) + 6 ELSE 0)
          + Str("error", KEY_ERROR, r.error)
          + (IF "timestamp" \in r.present
             THEN Len(KEY_TIMESTAMP) + 3 + Len(FormatLong(r.timestamp)) ELSE 0)

\* ------------------------------------------------------------------------
\* Response decoding (checkOTAUpdate, "Parse JSON response")
\* ------------------------------------------------------------------------
\* a decoder that reports an error for an empty input only
DeserializeFails_OnlyEmpty(r) == r.kind = "empty"

\* deserializeJson(doc, buffer) reports an error
DeserializeFails(r) == r.kind \in {"empty", "garbage"}

\* doc[key] | default
Member(r, key, value, default) ==
    IF r.kind = "object" /\ key \in r.present THEN value ELSE default

\* an extraction in which a missing update member counts as true
ExtractFields_UpdateDefaultsTrue(r) ==
    LET timestampValue == Member(r, "timestamp", r.timestamp, 0)
    IN  [update |-> Member(r, "update", r.update, TRUE),
         url |-> Member(r, "url", r.url, <<>>),
         version |-> Member(r, "version", r.version, <<>>),
         checksum |-> Member(r, "checksum", r.checksum, <<>>),
         protocol_version |-> Member(r, "protocol_version", r.protocol_version, <<>>),
         notes |-> Member(r, "notes", r.notes, <<>>),
         server_token |-> Member(r, "server_token", r.server_token, NoToken),
         errorMsg |-> Member(r, "error", r.error, <<>>),
         timestampStr |-> FormatLong(timestampValue)]

\* the locals extracted from the document, and timestampStr
ExtractFields(r) ==
    LET timestampValue == Member(r, "timestamp", r.timestamp, 0)
    IN  [update |-> Member(r, "update", r.update, FALSE),
         url |-> Member(r, "url", r.url, <<>>),
         version |-> Member(r, "version", r.version, <<>>),
         checksum |-> Member(r, "checksum", r.checksum, <<>>),
         protocol_version |-> Member(r, "protocol_version", r.protocol_version, <<>>),
         notes |-> Member(r, "notes", r.notes, <<>>),
         server_token |-> Member(r, "server_token", r.server_token, NoToken),
         errorMsg |-> Member(r, "error", r.error, <<>>),
         timestampStr |-> FormatLong(timestampValue)]

NoDoc == ExtractFields(NoResponse)

\* an error test that is skipped when an update is announced
ServerErrorDeclared_OnlyWithoutUpdate(d) == Len(d.errorMsg) > 0 /\ ~d.update

\* strlen(errorMsg) > 0
ServerErrorDeclared(d) == Len(d.errorMsg) > 0

\* a bound check that lets a full buffer through
ResponseOverflow_OffByOne(n) == n > BUFFER_SIZE - 1

\* len >= sizeof(buffer) - 1
ResponseOverflow(n) == n >= BUFFER_SIZE - 1

\* _client->readBytes(buffer, sizeof(buffer) - 1) on a body of n bytes
ReadBytes(n) == Min(n, BUFFER_SIZE - 1)

\* ------------------------------------------------------------------------
\* The responses the service (or whoever answers in its place) may send
\* ------------------------------------------------------------------------
\* bodies up to MaxOverrun bytes longer than the buffer are considered
MaxOverrun == 1

VERSION_110 == <<"1", ".", "1", ".", "0">>
CHECKSUM_DEADBEEF == <<"d", "e", "a", "d", "b", "e", "e", "f">>
NOTES_FIX == <<"f", "i", "x">>
ERROR_NOT_RECOGNIZED ==
    <<"d", "e", "v", "i", "c", "e", " ", "n", "o", "t", " ", "r", "e", "c",
      "o", "g", "n", "i", "z", "e", "d">>

FW_PATH == <<"/", "f", "w", ".", "b", "i", "n">>

URL_OK == TRUSTED_PREFIX \o FW_PATH
\* the service host followed by further domain labels
URL_SUFFIX == TRUSTED_PREFIX \o <<".", "e", "v", "i", "l", ".", "i", "o">> \o FW_PATH
URL_HTTP == <<"h", "t", "t", "p", ":", "/", "/">> \o API_HOST \o FW_PATH
\* a trusted url of n characters
UrlOfLen(n) == TRUSTED_PREFIX \o <<"/">> \o Rep("u", n - Len(TRUSTED_PREFIX) - 1)

\* an absent member, or a member with value v
Absent(v) == <<FALSE, v>>
Present(v) == <<TRUE, v>>

UpdateChoices == {Absent(FALSE), Present(FALSE), Present(TRUE)}
UrlChoices ==
    {Absent(<<>>), Present(URL_OK), Present(URL_SUFFIX), Present(URL_HTTP),
     Present(UrlOfLen(OTAURL_SIZE - 1)), Present(UrlOfLen(OTAURL_SIZE))}
ErrorChoices == {Absent(<<>>), Present(<<>>), Present(ERROR_NOT_RECOGNIZED)}
TimestampChoices == {Absent(0), Present(1000)}
\* notes: "fix", or a filler that makes the canonical message n characters
NotesChoices == {0, MESSAGE_SIZE - 1, MESSAGE_SIZE}

PresentKeys(u, l, e, t) ==
    {"version", "checksum", "protocol_version", "notes"}
      \cup (IF u[1] THEN {"update"} ELSE {})
      \cup (IF l[1] THEN {"url"} ELSE {})
      \cup (IF e[1] THEN {"error"} ELSE {})
      \cup (IF t[1] THEN {"timestamp"} ELSE {})

\* an object without server_token; n selects the notes
ObjectBase(u, l, n, e, t) ==
    LET b == [kind |-> "object", present |-> PresentKeys(u, l, e, t),
              update |-> u[2], url |-> l[2], version |-> VERSION_110,
              checksum |-> CHECKSUM_DEADBEEF,
              protocol_version |-> POTA_PROTOCOL_VERSION, notes |-> <<>>,
              server_token |-> NoToken, error |-> e[2], timestamp |-> t[2],
              bodyLen |-> 0]
        d == ExtractFields(b)
        base == Len(CanonicalMessage(d.update, d.version, d.url, d.checksum,
                                     d.protocol_version, d.notes, d.timestampStr))
    IN  [b EXCEPT !.notes = IF n = 0 THEN NOTES_FIX ELSE Rep("n", n - base)]

\* the canonical message a server computes for the fields of r
ServerMessage(r, update) ==
    LET d == ExtractFields(r)
    IN  CanonicalMessage(update, d.version, d.url, d.checksum,
                         d.protocol_version, d.notes, d.timestampStr)

\* server_token: absent, empty, 64 hex characters that are no HMAC of the
\* message, the HMAC of the message under each secret, and the HMAC (under
\* the short secret) of the same fields with the update flag inverted
TokenChoices(r) ==
    {Absent(NoToken), Present(NoToken), Present(PlainToken(Rep("0", 64))),
     Present(HmacToken(SECRET_A, ServerMessage(r, ~ExtractFields(r).update)))}
      \cup {Present(HmacToken(k, ServerMessage(r, ExtractFields(r).update))) :
              k \in Secrets}

WithToken(r, t) ==
    [r EXCEPT !.server_token = t[2],
              !.present = IF t[1] THEN @ \cup {"server_token"} ELSE @]

\* body lengths around the capacity of the buffer
EdgeLens == (BUFFER_SIZE - 2)..(BUFFER_SIZE + MaxOverrun)

\* the compact text of r, or that text followed by white space
BodyLens(r) ==
    {JsonLen(r)} \cup
    (IF r.url = URL_OK /\ r.notes = NOTES_FIX /\ "timestamp" \in r.present
     THEN EdgeLens ELSE {})

ObjectResponses ==
    UNION { UNION { { [WithToken(b, t) EXCEPT !.bodyLen = n] :
                        n \in BodyLens(WithToken(b, t)) } :
                    t \in TokenChoices(b) } :
            b \in { ObjectBase(u, l, n, e, t) :
                      u \in UpdateChoices, l \in UrlChoices, n \in NotesChoices,
                      e \in ErrorChoices, t \in TimestampChoices } }

\* "{}", and an object that carries nothing but a server_token
EmptyObject == [NoResponse EXCEPT !.kind = "object", !.bodyLen = 2]

TokenOnlyObjects ==
    { [r EXCEPT !.bodyLen = JsonLen(r)] :
        r \in { WithToken(EmptyObject, t) : t \in TokenChoices(EmptyObject) } }

\* "{not valid json" is 15 bytes; "[]" is 2
OtherResponses ==
    {NoResponse, [NoResponse EXCEPT !.kind = "nonobject", !.bodyLen = 2]}
      \cup TokenOnlyObjects
      \cup { [NoResponse EXCEPT !.kind = "garbage", !.bodyLen = n] :
               n \in {15} \cup EdgeLens }

Responses == ObjectResponses \cup OtherResponses

\* ------------------------------------------------------------------------
\* State
\* ------------------------------------------------------------------------
VARIABLES
    client,           \* _client != nullptr
    deviceType,       \* _deviceType
    firmwareVersion,  \* _firmwareVersion
    authToken,        \* _authToken
    serverSecret,     \* _serverSecret
    pc,               \* position of the running checkAndPerformOTA call, or "idle"
    connected,        \* the channel of _client is open
    wire,             \* what the running call has written to the channel
    bodyLen,          \* checkOTAUpdate: bodyLen
    resp,             \* the response body the other end sends
    len,              \* checkOTAUpdate: len
    doc,              \* checkOTAUpdate: the locals extracted from the document
    expectedToken,    \* checkOTAUpdate: expectedToken
    otaUrl,           \* checkAndPerformOTA: otaUrl
    err,              \* checkAndPerformOTA: err, the result of checkOTAUpdate
    updaterUrl,       \* the url the platform updater was started with
    result,           \* the POTAError the last completed call returned
    lastCall,         \* the last call made
    wifiTried,        \* the last call reached WiFi.begin
    firstInvalid,     \* the first invalid argument of the last begin/beginClient
    hist,             \* the steps the last call has taken, in order
    stream,           \* the response the server sends: its segments, and
                      \* whether it goes on sending header lines without end
    net,              \* segments of the response not yet delivered to the device
    rx,               \* bytes _client holds unread: available() is Len(rx)
    peerOpen,         \* the server has not closed its end of the channel
    scan,             \* where the bytes the header loop has consumed end
    arg,              \* the arguments of a function evaluated on its own
    out               \* its results, or <<>> before the evaluation

vars ==
    <<client, deviceType, firmwareVersion, authToken, serverSecret, pc,
      connected, wire, bodyLen, resp, len, doc, expectedToken, otaUrl, err,
      updaterUrl, result, lastCall, wifiTried, firstInvalid, hist,
      stream, net, rx, peerOpen, scan, arg, out>>

config == <<client, deviceType, firmwareVersion, authToken, serverSecret>>

\* the locals of a call, before it runs and after it returned
locals == <<wire, bodyLen, resp, len, doc, expectedToken, otaUrl, err, updaterUrl>>

LocalsCleared ==
    /\ wire' = <<>>
    /\ bodyLen' = 0
    /\ resp' = NoResponse
    /\ len' = 0
    /\ doc' = NoDoc
    /\ expectedToken' = NoToken
    /\ otaUrl' = <<>>
    /\ err' = "NONE"
    /\ updaterUrl' = <<>>

\* no response: the channel carries nothing
NoStream == [segs |-> <<>>, endless |-> FALSE]

\* the receive side of the channel
receive == <<stream, net, rx, peerOpen, scan>>

\* nothing is being received
ReceiveIdle ==
    /\ stream = NoStream
    /\ net = <<>>
    /\ rx = <<>>
    /\ peerOpen = FALSE
    /\ scan = "bol"

\* a function evaluated on its own
evaluation == <<arg, out>>

\* no function is being evaluated on its own
EvaluationIdle == arg = <<>> /\ out = <<>>

\* POTA::POTA()
Constructed ==
    /\ client = FALSE
    /\ deviceType = <<>>
    /\ firmwareVersion = <<>>
    /\ authToken = <<>>
    /\ serverSecret = <<>>
    /\ pc = "idle"
    /\ connected = FALSE
    /\ wire = <<>>
    /\ bodyLen = 0
    /\ resp = NoResponse
    /\ len = 0
    /\ doc = NoDoc
    /\ expectedToken = NoToken
    /\ otaUrl = <<>>
    /\ err = "NONE"
    /\ updaterUrl = <<>>
    /\ result = "NONE"
    /\ lastCall = "none"
    /\ wifiTried = FALSE
    /\ firstInvalid = "none"
    /\ hist = <<>>

Init == Constructed /\ ReceiveIdle /\ EvaluationIdle

\* ------------------------------------------------------------------------
\* Initialisation
\* ------------------------------------------------------------------------
\* a commit that stores each field as soon as it has been validated
Commit_FieldByField(e, dt, fw, at, ss) ==
    IF e = "SUCCESS"
    THEN /\ client' = TRUE
         /\ deviceType' = StrNCpy(dt, DEVICETYPE_SIZE)
         /\ firmwareVersion' = StrNCpy(fw, FWVERSION_SIZE)
         /\ authToken' = StrNCpy(at, AUTHTOKEN_SIZE)
         /\ serverSecret' = StrNCpy(ss, SECRET_SIZE)
    ELSE IF e \in {"PARAMETER_INVALID_FWVERSION", "PARAMETER_INVALID_AUTHTOKEN",
                   "PARAMETER_INVALID_SECRET"}
    THEN /\ deviceType' = StrNCpy(dt, DEVICETYPE_SIZE)
         /\ UNCHANGED <<client, firmwareVersion, authToken, serverSecret>>
    ELSE UNCHANGED config

\* the commit of beginClient, made when e is SUCCESS
Commit(e, dt, fw, at, ss) ==
    IF e = "SUCCESS"
    THEN /\ client' = TRUE
         /\ deviceType' = StrNCpy(dt, DEVICETYPE_SIZE)
         /\ firmwareVersion' = StrNCpy(fw, FWVERSION_SIZE)
         /\ authToken' = StrNCpy(at, AUTHTOKEN_SIZE)
         /\ serverSecret' = StrNCpy(ss, SECRET_SIZE)
    ELSE UNCHANGED config

\* POTA::beginClient(client, deviceType, firmwareVersion, authToken, serverSecret)
BeginClient ==
    /\ pc = "idle"
    /\ \E dt \in DeviceTypeArgs, fw \in FirmwareVersionArgs,
          at \in AuthTokenArgs, ss \in ServerSecretArgs :
          LET e == BeginClientResult(dt, fw, at, ss)
          IN  /\ Commit(e, dt, fw, at, ss)
              /\ result' = e
              /\ firstInvalid' = FirstInvalid(SSID_NET, PASS_PW, dt, fw, at, ss)
    /\ lastCall' = "beginClient"
    /\ wifiTried' = FALSE
    /\ hist' = <<>>
    /\ UNCHANGED <<pc, connected, locals>>
    /\ UNCHANGED <<receive, evaluation>>

\* POTA::begin(ssid, password, deviceType, firmwareVersion, authToken, serverSecret)
Begin ==
    /\ pc = "idle"
    /\ \E ssid \in WifiArgs(SSID_NET), password \in WifiArgs(PASS_PW),
          wifiOk \in BOOLEAN,
          dt \in DeviceTypeArgs, fw \in FirmwareVersionArgs,
          at \in AuthTokenArgs, ss \in ServerSecretArgs :
          LET e == BeginResult(ssid, password, wifiOk, dt, fw, at, ss)
          IN  /\ Commit(e, dt, fw, at, ss)
              /\ result' = e
              /\ wifiTried' = WifiAttempted(ssid, password)
              /\ firstInvalid' = FirstInvalid(ssid, password, dt, fw, at, ss)
    /\ lastCall' = "begin"
    /\ hist' = <<>>
    /\ UNCHANGED <<pc, connected, locals>>
    /\ UNCHANGED <<receive, evaluation>>

\* ------------------------------------------------------------------------
\* checkAndPerformOTA and, inlined, checkOTAUpdate
\* ------------------------------------------------------------------------
Step(name) == hist' = Append(hist, name)
Steps(names) == hist' = hist \o names

\* checkOTAUpdate returns e to checkAndPerformOTA
CheckReturns(e) == err' = e /\ pc' = "checked"

\* a checkAndPerformOTA that does not look at the client reference
CheckAndPerformOTA_NoClientCheck ==
    /\ pc = "idle"
    /\ lastCall' = "checkAndPerformOTA"
    /\ wifiTried' = FALSE
    /\ firstInvalid' = "none"
    /\ hist' = <<>>
    /\ result' = "NONE"
    /\ pc' = "connect"
    /\ UNCHANGED <<config, connected, locals>>
    /\ UNCHANGED <<receive, evaluation>>

\* checkAndPerformOTA is called: without a client it returns at once;
\* otherwise checkOTAUpdate starts with its own argument checks (the client
\* is set, otaUrl is a 256-byte buffer), empties otaUrl and installs the
\* trust anchor
CheckAndPerformOTA ==
    /\ pc = "idle"
    /\ lastCall' = "checkAndPerformOTA"
    /\ wifiTried' = FALSE
    /\ firstInvalid' = "none"
    /\ hist' = <<>>
    /\ IF ~client
       THEN /\ result' = "CLIENT_NOT_INITIALIZED"
            /\ pc' = "idle"
       ELSE /\ result' = "NONE"
            /\ pc' = "connect"
    /\ UNCHANGED <<config, connected, locals>>
    /\ UNCHANGED <<receive, evaluation>>

\* _client->connect(API_HOST, 443)
Connect ==
    /\ pc = "connect"
    /\ Step("connect")
    /\ \E ok \in BOOLEAN :
          IF ok
          THEN connected' = TRUE /\ pc' = "build" /\ UNCHANGED err
          ELSE connected' = FALSE /\ CheckReturns("CONNECTION_FAILED")
    /\ UNCHANGED <<config, wire, bodyLen, resp, len, doc, expectedToken, otaUrl,
                   updaterUrl, result, lastCall, wifiTried, firstInvalid>>
    /\ UNCHANGED <<receive, evaluation>>

\* the request body is formatted into buffer and its length is checked
BuildRequest ==
    /\ pc = "build"
    /\ bodyLen' = Len(RequestBody(deviceType, firmwareVersion, authToken))
    /\ IF RequestOverflow(bodyLen')
       THEN /\ Steps(<<"build", "stop">>)
            /\ connected' = FALSE
            /\ CheckReturns("BUFFER_OVERFLOW_REQUEST")
       ELSE /\ Step("build")
            /\ pc' = "send"
            /\ UNCHANGED <<connected, err>>
    /\ UNCHANGED <<config, wire, resp, len, doc, expectedToken, otaUrl,
                   updaterUrl, result, lastCall, wifiTried, firstInvalid>>
    /\ UNCHANGED <<receive, evaluation>>

\* the text of the request line and of the fixed header lines
REQUEST_LINE ==
    <<"P", "O", "S", "T", " ", "/", "a", "p", "i", "/", "v", "1", "/", "c",
      "h", "e", "c", "k", "_", "u", "p", "d", "a", "t", "e", "/", " ", "H",
      "T", "T", "P", "/", "1", ".", "1">>

HOST_LINE ==
    <<"H", "o", "s", "t", ":", " ", "w", "w", "w", ".", "p", "l", "e", "a",
      "s", "e", "d", "o", "n", "t", "c", "o", "d", "e", ".", "c", "o", "m">>

CONTENT_TYPE_LINE ==
    <<"C", "o", "n", "t", "e", "n", "t", "-", "T", "y", "p", "e", ":", " ",
      "a", "p", "p", "l", "i", "c", "a", "t", "i", "o", "n", "/", "j", "s",
      "o", "n">>

CONTENT_LENGTH_LABEL ==
    <<"C", "o", "n", "t", "e", "n", "t", "-", "L", "e", "n", "g", "t", "h",
      ":", " ">>

CONNECTION_LINE ==
    <<"C", "o", "n", "n", "e", "c", "t", "i", "o", "n", ":", " ", "c", "l",
      "o", "s", "e">>


\* the line terminator println appends
CRLF == <<"\r", "\n">>

\* one write on the channel: what is written, the number it carries (the
\* Content-Length value, the length of the serialized body) and the number
\* of bytes it puts on the channel
Written(item, n, text) == [item |-> item, n |-> n, bytes |-> Len(text)]

\* _client->print(text) and _client->println(text)
WritePrint(item, n, text) == Written(item, n, text)
WritePrintln(item, n, text) == Written(item, n, text \o CRLF)

\* the writes of the HTTP POST request, for the serialized body
RequestWrites(body) ==
    <<WritePrintln("request_line", 0, REQUEST_LINE),
      WritePrintln("host", 0, HOST_LINE),
      WritePrintln("content_type", 0, CONTENT_TYPE_LINE),
      WritePrint("content_length_label", 0, CONTENT_LENGTH_LABEL),
      WritePrintln("content_length", Len(body), FormatLong(Len(body))),
      WritePrintln("connection_close", 0, CONNECTION_LINE),
      WritePrintln("blank_line", 0, <<>>),
      WritePrintln("body", Len(body), body)>>

SendRequest ==
    /\ pc = "send"
    /\ Step("send")
    /\ wire' = wire \o RequestWrites(RequestBody(deviceType, firmwareVersion, authToken))
    /\ pc' = "await"
    /\ UNCHANGED <<config, connected, bodyLen, resp, len, doc, expectedToken,
                   otaUrl, err, updaterUrl, result, lastCall, wifiTried,
                   firstInvalid>>
    /\ UNCHANGED <<receive, evaluation>>

\* the wait loop ends: the other end has answered with some response
AwaitResponse ==
    /\ pc = "await"
    /\ Step("await")
    /\ \E r \in Responses : resp' = r
    /\ pc' = "headers"
    /\ UNCHANGED <<config, connected, wire, bodyLen, len, doc, expectedToken,
                   otaUrl, err, updaterUrl, result, lastCall, wifiTried,
                   firstInvalid>>
    /\ UNCHANGED <<receive, evaluation>>

\* the header lines are consumed
SkipHeaders ==
    /\ pc = "headers"
    /\ Step("headers")
    /\ pc' = "read"
    /\ UNCHANGED <<config, connected, wire, bodyLen, resp, len, doc,
                   expectedToken, otaUrl, err, updaterUrl, result, lastCall,
                   wifiTried, firstInvalid>>
    /\ UNCHANGED <<receive, evaluation>>

\* a read step whose overflow exit returns without closing the channel
ReadBody_LeavesOpenOnOverflow ==
    /\ pc = "read"
    /\ len' = ReadBytes(resp.bodyLen)
    /\ IF ResponseOverflow(len')
       THEN /\ Step("read")
            /\ UNCHANGED connected
            /\ CheckReturns("BUFFER_OVERFLOW_RESPONSE")
       ELSE /\ Steps(<<"read", "stop">>)
            /\ connected' = FALSE
            /\ pc' = "parse"
            /\ UNCHANGED err
    /\ UNCHANGED <<config, wire, bodyLen, resp, doc, expectedToken, otaUrl,
                   updaterUrl, result, lastCall, wifiTried, firstInvalid>>
    /\ UNCHANGED <<receive, evaluation>>

\* a read step that leaves the channel open while the response is parsed
ReadBody_KeepsOpenForParse ==
    /\ pc = "read"
    /\ len' = ReadBytes(resp.bodyLen)
    /\ IF ResponseOverflow(len')
       THEN /\ Steps(<<"read", "stop">>)
            /\ connected' = FALSE
            /\ CheckReturns("BUFFER_OVERFLOW_RESPONSE")
       ELSE /\ Step("read")
            /\ UNCHANGED connected
            /\ pc' = "parse"
            /\ UNCHANGED err
    /\ UNCHANGED <<config, wire, bodyLen, resp, doc, expectedToken, otaUrl,
                   updaterUrl, result, lastCall, wifiTried, firstInvalid>>
    /\ UNCHANGED <<receive, evaluation>>

\* the body is read into buffer, its length is checked, the channel is closed
ReadBody ==
    /\ pc = "read"
    /\ len' = ReadBytes(resp.bodyLen)
    /\ Steps(<<"read", "stop">>)
    /\ connected' = FALSE
    /\ IF ResponseOverflow(len')
       THEN CheckReturns("BUFFER_OVERFLOW_RESPONSE")
       ELSE pc' = "parse" /\ UNCHANGED err
    /\ UNCHANGED <<config, wire, bodyLen, resp, doc, expectedToken, otaUrl,
                   updaterUrl, result, lastCall, wifiTried, firstInvalid>>
    /\ UNCHANGED <<receive, evaluation>>

\* deserializeJson, then the extraction of the fields with their defaults
ParseResponse ==
    /\ pc = "parse"
    /\ Step("parse")
    /\ IF DeserializeFails(resp)
       THEN CheckReturns("JSON_PARSE_FAILED") /\ UNCHANGED doc
       ELSE doc' = ExtractFields(resp) /\ pc' = "errcheck" /\ UNCHANGED err
    /\ UNCHANGED <<config, connected, wire, bodyLen, resp, len, expectedToken,
                   otaUrl, updaterUrl, result, lastCall, wifiTried, firstInvalid>>
    /\ UNCHANGED <<receive, evaluation>>

\* if (strlen(errorMsg) > 0) return SERVER_ERROR_4XX
CheckServerError ==
    /\ pc = "errcheck"
    /\ Step("errcheck")
    /\ IF ServerErrorDeclared(doc)
       THEN CheckReturns("SERVER_ERROR_4XX")
       ELSE pc' = "verify" /\ UNCHANGED err
    /\ UNCHANGED <<config, connected, wire, bodyLen, resp, len, doc,
                   expectedToken, otaUrl, updaterUrl, result, lastCall,
                   wifiTried, firstInvalid>>
    /\ UNCHANGED <<receive, evaluation>>

\* generateServerToken, then the comparison with server_token
VerifyToken ==
    /\ pc = "verify"
    /\ LET g == GenerateServerToken(doc.update, doc.version, doc.url,
                                    doc.checksum, doc.protocol_version,
                                    doc.notes, doc.timestampStr, serverSecret)
       IN  /\ expectedToken' = g.token
           /\ IF g.err # "SUCCESS"
              THEN Step("generate") /\ CheckReturns(g.err)
              ELSE /\ Steps(<<"generate", "compare">>)
                   /\ IF TokenDiffers(g.token, doc.server_token)
                      THEN CheckReturns("TOKEN_MISMATCH")
                      ELSE pc' = "decide" /\ UNCHANGED err
    /\ UNCHANGED <<config, connected, wire, bodyLen, resp, len, doc, otaUrl,
                   updaterUrl, result, lastCall, wifiTried, firstInvalid>>
    /\ UNCHANGED <<receive, evaluation>>

\* the update flag and the url prefix decide; an accepted url is copied out
Decide ==
    /\ pc = "decide"
    /\ Step("decide")
    /\ IF UpdateAccepted(doc.update, doc.url)
       THEN otaUrl' = StrNCpy(doc.url, OTAURL_SIZE) /\ CheckReturns("SUCCESS")
       ELSE UNCHANGED otaUrl /\ CheckReturns("NO_UPDATE_AVAILABLE")
    /\ UNCHANGED <<config, connected, wire, bodyLen, resp, len, doc,
                   expectedToken, updaterUrl, result, lastCall, wifiTried,
                   firstInvalid>>
    /\ UNCHANGED <<receive, evaluation>>

\* an error return that connects again after a failed connect
ReturnError_RetriesConnect ==
    /\ pc = "checked"
    /\ err # "SUCCESS"
    /\ IF err = "CONNECTION_FAILED" /\ Len(hist) < 2
       THEN /\ pc' = "connect"
            /\ UNCHANGED <<result, locals>>
       ELSE /\ result' = err
            /\ pc' = "idle"
            /\ LocalsCleared
    /\ UNCHANGED <<config, connected, lastCall, wifiTried, firstInvalid, hist>>
    /\ UNCHANGED <<receive, evaluation>>

\* if (err != SUCCESS) return err; checkOTAUpdate's locals are gone
ReturnError ==
    /\ pc = "checked"
    /\ err # "SUCCESS"
    /\ result' = err
    /\ pc' = "idle"
    /\ LocalsCleared
    /\ UNCHANGED <<config, connected, lastCall, wifiTried, firstInvalid, hist>>
    /\ UNCHANGED <<receive, evaluation>>

\* return performOTA(otaUrl): the url is validated, then the platform
\* updater runs and ends with one of its outcomes
PerformOTA ==
    /\ pc = "checked"
    /\ err = "SUCCESS"
    /\ IF NullOrEmpty(otaUrl)
       THEN /\ result' = "PARAMETER_INVALID_OTA_URL"
            /\ UNCHANGED <<updaterUrl, hist>>
       ELSE /\ Step("perform")
            /\ updaterUrl' = otaUrl
            /\ \E o \in UpdaterOutcomes : result' = o
    /\ pc' = "performed"
    /\ UNCHANGED <<config, connected, wire, bodyLen, resp, len, doc,
                   expectedToken, otaUrl, err, lastCall, wifiTried, firstInvalid>>
    /\ UNCHANGED <<receive, evaluation>>

\* performOTA has returned a failure, and checkAndPerformOTA returns it
ReturnPerformed ==
    /\ pc = "performed"
    /\ result # "SUCCESS"
    /\ pc' = "idle"
    /\ LocalsCleared
    /\ UNCHANGED <<config, connected, result, lastCall, wifiTried, firstInvalid,
                   hist>>
    /\ UNCHANGED <<receive, evaluation>>

\* the update was applied: the device restarts into the new firmware
Restart ==
    /\ pc = "performed"
    /\ result = "SUCCESS"
    /\ client' = FALSE
    /\ deviceType' = <<>>
    /\ firmwareVersion' = <<>>
    /\ authToken' = <<>>
    /\ serverSecret' = <<>>
    /\ pc' = "idle"
    /\ connected' = FALSE
    /\ LocalsCleared
    /\ result' = "NONE"
    /\ lastCall' = "none"
    /\ wifiTried' = FALSE
    /\ firstInvalid' = "none"
    /\ hist' = <<>>
    /\ UNCHANGED <<receive, evaluation>>

Next ==
    \/ BeginClient
    \/ Begin
    \/ CheckAndPerformOTA
    \/ Connect
    \/ BuildRequest
    \/ SendRequest
    \/ AwaitResponse
    \/ SkipHeaders
    \/ ReadBody
    \/ ParseResponse
    \/ CheckServerError
    \/ VerifyToken
    \/ Decide
    \/ ReturnError
    \/ PerformOTA
    \/ ReturnPerformed
    \/ Restart

Spec == Init /\ [][Next]_vars

\* ------------------------------------------------------------------------
\* The receive phase of checkOTAUpdate, byte by byte
\* ------------------------------------------------------------------------
\* char line[128]
LINE_SIZE == 128

\* the bytes an endless server may have sent that the device has not read
MaxUnread == 10

\* a status line, a header line of n characters, and two bodies: "{}", and
\* an object whose only member t is the server_token of a response that
\* carries nothing else, under the secret of the device
STATUS_LINE == <<"2", "0", "0">> \o CRLF
HeaderLine(n) == Rep("h", n) \o CRLF
BODY_EMPTY_OBJECT == <<"{", "}">>
BODY_TOKEN_ONLY == <<"{", "t", "}">>

\* the bytes of the segments, in order
RECURSIVE Flatten(_)
Flatten(segs) == IF segs = <<>> THEN <<>> ELSE Head(segs) \o Flatten(Tail(segs))

\* bytes cut in two after the first k
SplitAt(bytes, k) == <<SubSeq(bytes, 1, k), SubSeq(bytes, k + 1, Len(bytes))>>

\* a response arrives whole, line by line, or cut inside its first header
Segmentations(lines) ==
    {<<Flatten(lines)>>, lines, SplitAt(Flatten(lines), Len(STATUS_LINE) + 2)}

\* header lines shorter than, as long as and longer than the line buffer
HeaderLens == {3, LINE_SIZE - 2, LINE_SIZE - 1, LINE_SIZE}

\* status line, one header, blank line, body
FramedResponses ==
    UNION { Segmentations(<<STATUS_LINE, HeaderLine(n), CRLF, body>>) :
              n \in HeaderLens, body \in {BODY_EMPTY_OBJECT, BODY_TOKEN_ONLY} }

\* the framed responses, a server that closes without a response, and a
\* server that sends header lines without end
Streams ==
    {[segs |-> sg, endless |-> FALSE] : sg \in FramedResponses}
      \cup {NoStream, [segs |-> <<STATUS_LINE>>, endless |-> TRUE]}

\* the bytes a blocking read can take when k more segments arrive in time
Arrived(k) == rx \o Flatten(SubSeq(net, 1, k))

\* the position of the first '\n' in data, or 0
FirstLF(data) ==
    LET at == {i \in 1..Len(data) : data[i] = "\n"}
    IN  IF at = {} THEN 0 ELSE CHOOSE i \in at : \A j \in at : i <= j

\* readBytesUntil('\n', line, max) on the bytes that arrive in time: the
\* line stored, and the number of bytes taken from the channel
ReadBytesUntil(data, max) ==
    LET p == FirstLF(data)
    IN  IF p # 0 /\ p <= max
        THEN [line |-> SubSeq(data, 1, p - 1), used |-> p]
        ELSE [line |-> SubSeq(data, 1, Min(Len(data), max)),
              used |-> Min(Len(data), max)]

\* a reader of header lines that ends at an empty line: at the beginning of
\* a line ("bol"), after a '\r' that begins a line ("cr"), inside a line
\* ("mid"), after the empty line ("end").  ScanBytes(st, bytes) is where the
\* reader is after bytes when it was at st before
ScanBytes(st, bytes) ==
    LET n == Len(bytes)
        AtBol(i) == IF i = 1 THEN st = "bol" ELSE bytes[i - 1] = "\n"
        Empty(i) == bytes[i] = "\r" /\ bytes[i + 1] = "\n" /\ AtBol(i)
    IN  IF st = "end" \/ n = 0 THEN st
        ELSE IF \/ st = "cr" /\ bytes[1] = "\n"
                \/ \E i \in 1..(n - 1) : Empty(i)
        THEN "end"
        ELSE IF bytes[n] = "\n" THEN "bol"
        ELSE IF bytes[n] = "\r" /\ AtBol(n) THEN "cr"
        ELSE "mid"

\* white space before a JSON document is skipped
RECURSIVE SkipSpace(_)
SkipSpace(b) ==
    IF b # <<>> /\ Head(b) \in {"\r", "\n", " "} THEN SkipSpace(Tail(b)) ELSE b

\* what deserializeJson makes of the bytes read into buffer
Decode(got) ==
    LET t == SkipSpace(got)
        r == IF t = <<>> THEN NoResponse
             ELSE IF t = BODY_EMPTY_OBJECT THEN EmptyObject
             ELSE IF t = BODY_TOKEN_ONLY
             THEN WithToken(EmptyObject,
                            Present(HmacToken(SECRET_A, ServerMessage(EmptyObject, FALSE))))
             ELSE [NoResponse EXCEPT !.kind = "garbage"]
    IN  [r EXCEPT !.bodyLen = Len(got)]

\* checkOTAUpdate has written its request (line 277) for a device
\* initialised with "Sensor1", "1.0.0", "abc", "s3cr3t"
RequestSent ==
    /\ client = TRUE
    /\ deviceType = DT_SENSOR1
    /\ firmwareVersion = FW_100
    /\ authToken = AT_ABC
    /\ serverSecret = SECRET_A
    /\ pc = "await"
    /\ connected = TRUE
    /\ wire = RequestWrites(RequestBody(DT_SENSOR1, FW_100, AT_ABC))
    /\ bodyLen = Len(RequestBody(DT_SENSOR1, FW_100, AT_ABC))
    /\ resp = NoResponse
    /\ len = 0
    /\ doc = NoDoc
    /\ expectedToken = NoToken
    /\ otaUrl = <<>>
    /\ err = "NONE"
    /\ updaterUrl = <<>>
    /\ result = "NONE"
    /\ lastCall = "checkAndPerformOTA"
    /\ wifiTried = FALSE
    /\ firstInvalid = "none"
    /\ hist = <<"connect", "build", "send">>

\* the server is about to answer
InitRx ==
    /\ RequestSent
    /\ stream \in Streams
    /\ net = stream.segs
    /\ rx = <<>>
    /\ peerOpen = TRUE
    /\ scan = "bol"
    /\ EvaluationIdle

\* the next segment reaches the device
Deliver ==
    /\ connected
    /\ net # <<>>
    /\ rx' = rx \o Head(net)
    /\ net' = Tail(net)
    /\ UNCHANGED <<config, pc, connected, locals, result, lastCall, wifiTried,
                   firstInvalid, hist, stream, peerOpen, scan, evaluation>>

\* an endless server sends one more header line
Stream ==
    /\ connected
    /\ peerOpen
    /\ stream.endless
    /\ Len(Arrived(Len(net))) < MaxUnread
    /\ net' = Append(net, HeaderLine(3))
    /\ UNCHANGED <<config, pc, connected, locals, result, lastCall, wifiTried,
                   firstInvalid, hist, stream, rx, peerOpen, scan, evaluation>>

\* a server that has sent its whole response closes the channel
PeerClose ==
    /\ connected
    /\ peerOpen
    /\ ~stream.endless
    /\ net = <<>>
    /\ peerOpen' = FALSE
    /\ UNCHANGED <<config, pc, connected, locals, result, lastCall, wifiTried,
                   firstInvalid, hist, stream, net, rx, scan, evaluation>>

\* while (_client->connected() && !_client->available()) delay(10): the exit
RxAwait ==
    /\ pc = "await"
    /\ ~peerOpen \/ rx # <<>>
    /\ Step("await")
    /\ pc' = "headers"
    /\ UNCHANGED <<config, connected, locals, result, lastCall, wifiTried,
                   firstInvalid, receive, evaluation>>

\* one pass of the header loop: available() is not 0, readBytesUntil takes
\* a line, and the loop is left when the line is "\r"
RxHeaderLine ==
    /\ pc = "headers"
    /\ rx # <<>>
    /\ \E k \in 0..Len(net) :
          LET data == Arrived(k)
              r == ReadBytesUntil(data, LINE_SIZE - 1)
          IN  /\ rx' = SubSeq(data, r.used + 1, Len(data))
              /\ net' = SubSeq(net, k + 1, Len(net))
              /\ scan' = ScanBytes(scan, SubSeq(data, 1, r.used))
              /\ IF r.line = <<"\r">>
                 THEN Step("headers") /\ pc' = "read"
                 ELSE UNCHANGED <<hist, pc>>
    /\ UNCHANGED <<config, connected, locals, result, lastCall, wifiTried,
                   firstInvalid, stream, peerOpen, evaluation>>

\* the header loop ends because available() is 0
RxHeadersDone ==
    /\ pc = "headers"
    /\ rx = <<>>
    /\ Step("headers")
    /\ pc' = "read"
    /\ UNCHANGED <<config, connected, locals, result, lastCall, wifiTried,
                   firstInvalid, receive, evaluation>>

\* readBytes(buffer, sizeof(buffer) - 1), the length check, stop()
RxReadBody ==
    /\ pc = "read"
    /\ \E k \in 0..Len(net) :
          LET data == Arrived(k)
              n == ReadBytes(Len(data))
          IN  /\ len' = n
              /\ resp' = Decode(SubSeq(data, 1, n))
              /\ rx' = SubSeq(data, n + 1, Len(data))
              /\ net' = SubSeq(net, k + 1, Len(net))
    /\ Steps(<<"read", "stop">>)
    /\ connected' = FALSE
    /\ IF ResponseOverflow(len')
       THEN CheckReturns("BUFFER_OVERFLOW_RESPONSE")
       ELSE pc' = "parse" /\ UNCHANGED err
    /\ UNCHANGED <<config, wire, bodyLen, doc, expectedToken, otaUrl,
                   updaterUrl, result, lastCall, wifiTried, firstInvalid,
                   stream, peerOpen, scan, evaluation>>

\* the steps of the device
Device ==
    \/ RxAwait
    \/ RxHeaderLine
    \/ RxHeadersDone
    \/ RxReadBody
    \/ ParseResponse
    \/ CheckServerError
    \/ VerifyToken
    \/ Decide
    \/ ReturnError

NextRx ==
    \/ Deliver
    \/ Stream
    \/ PeerClose
    \/ RxAwait
    \/ RxHeaderLine
    \/ RxHeadersDone
    \/ RxReadBody
    \/ ParseResponse
    \/ CheckServerError
    \/ VerifyToken
    \/ Decide
    \/ ReturnError

SpecRx == InitRx /\ [][NextRx]_vars

\* the device keeps running, segments in flight arrive, and a server that
\* has sent its response closes
SpecRxFair ==
    InitRx /\ [][NextRx]_vars
      /\ WF_vars(Device) /\ WF_vars(Deliver) /\ WF_vars(PeerClose)

\* ------------------------------------------------------------------------
\* errorToString, evaluated on its own
\* ------------------------------------------------------------------------
\* the enumerators of POTAError
POTAError ==
    {"SUCCESS",
     "PARAMETER_INVALID_SSID",
     "PARAMETER_INVALID_PASSWORD",
     "PARAMETER_INVALID_DEVICETYPE",
     "PARAMETER_INVALID_FWVERSION",
     "PARAMETER_INVALID_AUTHTOKEN",
     "PARAMETER_INVALID_SECRET",
     "PARAMETER_INVALID_OUTPUT",
     "PARAMETER_INVALID_OTA_URL",
     "WIFI_CONNECT_FAILED",
     "CLIENT_NOT_INITIALIZED",
     "CONNECTION_FAILED",
     "JSON_PARSE_FAILED",
     "TOKEN_GENERATION_FAILED",
     "TOKEN_MISMATCH",
     "NO_UPDATE_AVAILABLE",
     "OTA_FAILED",
     "OTA_DOWNLOAD_FAILED",
     "OTA_DECOMPRESSION_FAILED",
     "OTA_APPLY_FAILED",
     "OTA_NOT_CAPABLE",
     "OTA_BEGIN_FAILED",
     "OTA_WIFI_FW_MISSING",
     "PLATFORM_NOT_SUPPORTED",
     "BUFFER_OVERFLOW_REQUEST",
     "BUFFER_OVERFLOW_RESPONSE",
     "CERTIFICATE_MISSING",
     "SERVER_ERROR_4XX"}

\* the text of the default label of errorToString
UNDEFINED_ERROR == "Undefined error"

\* POTA::errorToString(err), with e for err
errorToString(e) ==
    CASE e = "SUCCESS" -> "SUCCESS"
      [] e = "PARAMETER_INVALID_SSID" -> "Invalid SSID parameter"
      [] e = "PARAMETER_INVALID_PASSWORD" -> "Invalid Wi-Fi password parameter"
      [] e = "PARAMETER_INVALID_DEVICETYPE" -> "Invalid device type parameter"
      [] e = "PARAMETER_INVALID_FWVERSION" -> "Invalid firmware version parameter"
      [] e = "PARAMETER_INVALID_AUTHTOKEN" -> "Invalid authentication token parameter"
      [] e = "PARAMETER_INVALID_SECRET" -> "Invalid secret key parameter"
      [] e = "PARAMETER_INVALID_OUTPUT" -> "Output buffer is null or too small"
      [] e = "PARAMETER_INVALID_OTA_URL" -> "Invalid OTA URL parameter"
      [] e = "WIFI_CONNECT_FAILED" -> "Failed to connect to Wi-Fi"
      [] e = "CLIENT_NOT_INITIALIZED" -> "Wi-Fi client not initialized"
      [] e = "CONNECTION_FAILED" -> "Could not connect to server"
      [] e = "JSON_PARSE_FAILED" -> "Failed to parse JSON response"
      [] e = "TOKEN_GENERATION_FAILED" -> "Failed to generate server token"
      [] e = "TOKEN_MISMATCH" -> "Server token did not match expected"
      [] e = "NO_UPDATE_AVAILABLE" -> "No OTA update available"
      [] e = "OTA_FAILED" -> "OTA process failed (generic)"
      [] e = "OTA_DOWNLOAD_FAILED" -> "OTA firmware download failed"
      [] e = "OTA_DECOMPRESSION_FAILED" -> "OTA firmware decompression failed"
      [] e = "OTA_APPLY_FAILED" -> "OTA firmware application failed"
      [] e = "OTA_NOT_CAPABLE" -> "Portenta bootloader too old or not capable"
      [] e = "OTA_BEGIN_FAILED" -> "OTA initialization failed"
      [] e = "PLATFORM_NOT_SUPPORTED" -> "Board platform not supported"
      [] e = "BUFFER_OVERFLOW_REQUEST" -> "Buffer overflow while building JSON request"
      [] e = "BUFFER_OVERFLOW_RESPONSE" -> "Buffer overflow while reading server response"
      [] e = "OTA_WIFI_FW_MISSING" -> "Wi-Fi firmware not installed. Please run WifiFirmwareUpdater.ino / QSPIFormat.ino at least once before performing OTA."
      [] e = "SERVER_ERROR_4XX" -> "Server returned a 4xx error"
      [] OTHER -> UNDEFINED_ERROR

\* two error kinds are chosen
InitErr ==
    /\ Constructed
    /\ ReceiveIdle
    /\ arg \in POTAError \X POTAError
    /\ out = <<>>

\* errorToString is called on each of them
Describe ==
    /\ out = <<>>
    /\ out' = <<errorToString(arg[1]), errorToString(arg[2])>>
    /\ UNCHANGED <<config, pc, connected, locals, result, lastCall, wifiTried,
                   firstInvalid, hist, receive, arg>>

NextErr == Describe

SpecErr == InitErr /\ [][NextErr]_vars

\* ------------------------------------------------------------------------
\* generateServerToken, evaluated on its own
\* ------------------------------------------------------------------------
\* a version that holds a colon
VERSION_COLON == <<"1", ":", "1">>

\* the fields a response can carry: strings (some empty, some holding the
\* separator, notes that fill the message buffer) and timestamps
CanonFields ==
    [update : BOOLEAN,
     version : {<<>>, VERSION_110, VERSION_COLON},
     url : {<<>>, URL_OK},
     checksum : {<<>>, CHECKSUM_DEADBEEF},
     protocol_version : {<<>>, POTA_PROTOCOL_VERSION},
     notes : {<<>>, COLON, NOTES_FIX, Rep("n", MESSAGE_SIZE)},
     timestamp : {0, 10, 1000, -1}]

\* the names of the fields that differ between f and g
Differing(f, g) == {k \in DOMAIN f : f[k] # g[k]}

\* the call of lines 338-340 for the extracted fields f
TokenOfFields(f, secret) ==
    GenerateServerToken(f.update, f.version, f.url, f.checksum,
                        f.protocol_version, f.notes, FormatLong(f.timestamp),
                        secret)

\* two sets of fields that differ in one field
InitCanon ==
    /\ Constructed
    /\ ReceiveIdle
    /\ \E f \in CanonFields, g \in CanonFields :
          /\ Cardinality(Differing(f, g)) = 1
          /\ arg = <<f, g>>
    /\ out = <<>>

\* the token of each is generated under the same secret
Authenticate ==
    /\ out = <<>>
    /\ out' = <<TokenOfFields(arg[1], SECRET_A), TokenOfFields(arg[2], SECRET_A)>>
    /\ UNCHANGED <<config, pc, connected, locals, result, lastCall, wifiTried,
                   firstInvalid, hist, receive, arg>>

NextCanon == Authenticate

SpecCanon == InitCanon /\ [][NextCanon]_vars

\* fields whose strings may hold the separator: a url that ends in ":b",
\* the checksums "b:c" and "c", notes ":"
PairFields ==
    [update : BOOLEAN,
     version : {VERSION_110},
     url : {URL_OK, URL_OK \o <<":", "b">>},
     checksum : {CHECKSUM_DEADBEEF, <<"b", ":", "c">>, <<"c">>},
     protocol_version : {POTA_PROTOCOL_VERSION},
     notes : {<<>>, COLON},
     timestamp : {0, 1000}]

\* two different sets of fields
InitCanonPairs ==
    /\ Constructed
    /\ ReceiveIdle
    /\ \E f \in PairFields, g \in PairFields :
          /\ f # g
          /\ arg = <<f, g>>
    /\ out = <<>>

NextCanonPairs == Authenticate

SpecCanonPairs == InitCanonPairs /\ [][NextCanonPairs]_vars

\* ------------------------------------------------------------------------
\* Properties
\* ------------------------------------------------------------------------
\* the last call has taken step name
InHist(name) == \E i \in 1..Len(hist) : hist[i] = name

\* the token of the canonical message of the fields d under key
TokenFor(d, key) ==
    HmacToken(key, CanonicalMessage(d.update, d.version, d.url, d.checksum,
                                    d.protocol_version, d.notes, d.timestampStr))

\* the canonical message of the fields d fits the message buffer
MessageFits(d) ==
    Len(CanonicalMessage(d.update, d.version, d.url, d.checksum,
                         d.protocol_version, d.notes, d.timestampStr))
      < MESSAGE_SIZE

\* url starts with "https://www.pleasedontcode.com"
UrlTrusted(url) ==
    /\ Len(url) >= Len(TRUSTED_PREFIX)
    /\ SubSeq(url, 1, Len(TRUSTED_PREFIX)) = TRUSTED_PREFIX

\* the response body is JSON text
Decodable == resp.kind \in {"nonobject", "object"}

\* checkOTAUpdate has returned after a parse step on a decodable response
Parsed == pc \in {"checked", "performed"} /\ InHist("parse") /\ Decodable

\* the last call was a checkAndPerformOTA that has returned
CheckDone == pc = "idle" /\ lastCall = "checkAndPerformOTA"

\* C1: the updater is invoked only after a check that parsed a response
\* whose server_token equals the token recomputed from its fields and the
\* stored secret, whose update flag is true and whose url starts with the
\* service prefix; after any other outcome of the check (an error,
\* TOKEN_MISMATCH, NO_UPDATE_AVAILABLE) the updater has not been invoked.
C1_UpdaterOnlyAfterVerifiedProceed ==
    /\ (pc = "performed" /\ InHist("perform")) =>
          /\ Parsed
          /\ err = "SUCCESS"
          /\ ExtractFields(resp).server_token = TokenFor(ExtractFields(resp), serverSecret)
          /\ ExtractFields(resp).update
          /\ UrlTrusted(ExtractFields(resp).url)
    /\ InHist("perform") =>
          \/ pc = "performed"
          \/ CheckDone /\ result \in UpdaterOutcomes \ {"SUCCESS"}
    /\ (pc = "checked" /\ err # "SUCCESS") => ~InHist("perform") /\ updaterUrl = <<>>
    /\ (CheckDone /\ result \notin UpdaterOutcomes) => ~InHist("perform")

C1_Witness ==
    /\ pc = "performed"
    /\ InHist("perform")
    /\ updaterUrl = URL_OK
    /\ resp.server_token = TokenFor(doc, serverSecret)

\* C2: whenever checkOTAUpdate has returned, with any result, the channel
\* is closed.
C2_ChannelClosedOnReturn ==
    pc \in {"checked", "performed", "idle"} => ~connected

C2_Witness ==
    /\ pc = "checked"
    /\ InHist("send")
    /\ err = "BUFFER_OVERFLOW_RESPONSE"
    /\ ~connected

\* C3 as claimed: for a parsed response with an empty error field, a
\* server_token that differs from the expected token gives TOKEN_MISMATCH,
\* whatever the other fields are.
C3_Original ==
    (/\ pc = "checked"
     /\ Parsed
     /\ Len(ExtractFields(resp).errorMsg) = 0
     /\ ExtractFields(resp).server_token # TokenFor(ExtractFields(resp), serverSecret))
        => err = "TOKEN_MISMATCH"

\* C3 as amended: for a parsed response with an empty error field, a
\* server_token that differs from the expected token gives TOKEN_MISMATCH
\* when the canonical message is shorter than 512 characters; when it is
\* not, the outcome is TOKEN_GENERATION_FAILED for every server_token.
C3_MismatchUnlessMessageTooLong ==
    (/\ pc = "checked"
     /\ Parsed
     /\ Len(ExtractFields(resp).errorMsg) = 0)
        => /\ (/\ MessageFits(ExtractFields(resp))
               /\ ExtractFields(resp).server_token
                    # TokenFor(ExtractFields(resp), serverSecret))
                  => err = "TOKEN_MISMATCH"
           /\ ~MessageFits(ExtractFields(resp)) => err = "TOKEN_GENERATION_FAILED"

C3_Witness ==
    /\ pc = "checked"
    /\ Parsed
    /\ err = "TOKEN_MISMATCH"
    /\ "server_token" \notin resp.present
    /\ doc.update
    /\ doc.url = URL_OK

\* C4 as claimed: a well-formed response with update=false and an empty
\* error field gives NO_UPDATE_AVAILABLE for any server_token.
C4_Original ==
    (/\ pc = "checked"
     /\ Parsed
     /\ resp.kind = "object"
     /\ Len(ExtractFields(resp).errorMsg) = 0
     /\ ~ExtractFields(resp).update)
        => err = "NO_UPDATE_AVAILABLE"

\* C4 as amended: a well-formed response with update=false and an empty
\* error field gives NO_UPDATE_AVAILABLE exactly when its server_token
\* matches the expected token; with any other server_token the outcome is
\* TOKEN_MISMATCH (TOKEN_GENERATION_FAILED when the canonical message does
\* not fit 512 bytes).
C4_NoUpdateOnlyWhenVerified ==
    (/\ pc = "checked"
     /\ Parsed
     /\ resp.kind = "object"
     /\ Len(ExtractFields(resp).errorMsg) = 0
     /\ ~ExtractFields(resp).update)
        => IF ~MessageFits(ExtractFields(resp))
           THEN err = "TOKEN_GENERATION_FAILED"
           ELSE IF ExtractFields(resp).server_token
                     = TokenFor(ExtractFields(resp), serverSecret)
           THEN err = "NO_UPDATE_AVAILABLE"
           ELSE err = "TOKEN_MISMATCH"

C4_Witness ==
    /\ pc = "checked"
    /\ Parsed
    /\ "update" \in resp.present
    /\ ~resp.update
    /\ resp.url = URL_OK
    /\ resp.server_token = TokenFor(doc, serverSecret)
    /\ err = "NO_UPDATE_AVAILABLE"

C8_ServerErrorBypassesVerification ==
    /\ (Parsed /\ Len(ExtractFields(resp).errorMsg) > 0)
          => /\ pc = "checked"
             /\ err = "SERVER_ERROR_4XX"
             /\ ~InHist("generate")
             /\ ~InHist("compare")
             /\ expectedToken = NoToken
    /\ (CheckDone /\ result = "SERVER_ERROR_4XX")
          => ~InHist("generate") /\ ~InHist("compare")

C8_Witness ==
    /\ pc = "checked"
    /\ err = "SERVER_ERROR_4XX"
    /\ resp.error = ERROR_NOT_RECOGNIZED
    /\ resp.update
    /\ "update" \in resp.present
    /\ resp.url = URL_OK
    /\ resp.server_token = TokenFor(ExtractFields(resp), serverSecret)

\* C9: if the response body is not decodable as JSON, the check returns
\* JSON_PARSE_FAILED; the server-error test, the token verification and
\* the decision do not run, the output url stays empty and the updater is
\* not invoked.
C9_ParseFailureStopsCheck ==
    /\ (pc \in {"checked", "performed", "errcheck", "verify", "decide"}
        /\ InHist("parse") /\ ~Decodable)
          => /\ pc = "checked"
             /\ err = "JSON_PARSE_FAILED"
             /\ ~InHist("errcheck")
             /\ ~InHist("generate")
             /\ ~InHist("compare")
             /\ ~InHist("decide")
             /\ ~InHist("perform")
             /\ otaUrl = <<>>
             /\ updaterUrl = <<>>
    /\ (CheckDone /\ result = "JSON_PARSE_FAILED")
          => /\ ~InHist("errcheck")
             /\ ~InHist("generate")
             /\ ~InHist("decide")
             /\ ~InHist("perform")

C9_Witness ==
    /\ pc = "checked"
    /\ resp.kind = "garbage"
    /\ resp.bodyLen < BUFFER_SIZE - 1
    /\ err = "JSON_PARSE_FAILED"

\* the ParameterInvalid error that names a field
ParameterInvalid(field) ==
    CASE field = "ssid" -> "PARAMETER_INVALID_SSID"
      [] field = "password" -> "PARAMETER_INVALID_PASSWORD"
      [] field = "deviceType" -> "PARAMETER_INVALID_DEVICETYPE"
      [] field = "firmwareVersion" -> "PARAMETER_INVALID_FWVERSION"
      [] field = "authToken" -> "PARAMETER_INVALID_AUTHTOKEN"
      [] field = "serverSecret" -> "PARAMETER_INVALID_SECRET"
      [] OTHER -> "SUCCESS"

\* C10: begin returns the ParameterInvalid error of the first invalid
\* argument in the order ssid, password, deviceType, firmwareVersion,
\* authToken, serverSecret, whatever the outcome of the Wi-Fi association.
C10_FirstInvalidFieldReported ==
    (pc = "idle" /\ lastCall = "begin" /\ firstInvalid # "none")
        => result = ParameterInvalid(firstInvalid)

\* the ParameterInvalid errors of begin and beginClient
ParameterInvalidErrors ==
    {"PARAMETER_INVALID_SSID", "PARAMETER_INVALID_PASSWORD",
     "PARAMETER_INVALID_DEVICETYPE", "PARAMETER_INVALID_FWVERSION",
     "PARAMETER_INVALID_AUTHTOKEN", "PARAMETER_INVALID_SECRET"}

\* C11: when begin or beginClient returns a ParameterInvalid error, no I/O
\* was performed during that call: no Wi-Fi association was attempted.
C11_ParameterInvalidIsPreFlight ==
    (/\ pc = "idle"
     /\ lastCall \in {"begin", "beginClient"}
     /\ result \in ParameterInvalidErrors)
        => ~wifiTried

\* C12: a begin or beginClient call that returns an error (a
\* ParameterInvalid error or WIFI_CONNECT_FAILED) leaves the client
\* reference and the four config fields exactly as they were before it.
C12_FailedInitCommitsNothing ==
    [][(/\ pc = "idle"
        /\ lastCall' \in {"begin", "beginClient"}
        /\ result' # "SUCCESS")
          => UNCHANGED config]_vars

C12_Witness ==
    /\ pc = "idle"
    /\ lastCall = "beginClient"
    /\ result = "PARAMETER_INVALID_SECRET"
    /\ client
    /\ deviceType = DT_SENSOR1
    /\ serverSecret = SECRET_A

\* the number of times the last call has taken step name
Count(h, name) == Cardinality({i \in 1..Len(h) : h[i] = name})

\* C13: one checkAndPerformOTA call connects at most once, sends at most
\* one request and invokes the updater at most once, and an error result
\* of the check is returned to the caller in the next step, with no
\* earlier step entered again.
C13_NoRetry ==
    [][/\ Count(hist', "connect") <= 1
       /\ Count(hist', "send") <= 1
       /\ Count(hist', "perform") <= 1
       /\ Len(wire') <= Len(RequestWrites(<<>>))
       /\ (pc = "checked" /\ err # "SUCCESS")
             => (pc' = "idle" /\ result' = err /\ hist' = hist)]_vars

C13_Witness ==
    /\ CheckDone
    /\ result = "CONNECTION_FAILED"
    /\ hist = <<"connect">>

\* C14: a check that has sent its request eventually returns from
\* checkOTAUpdate, when the device keeps running, segments in flight arrive
\* and a server that has sent its response closes the channel.
C14_CheckTerminates == (pc = "await") ~> (pc \in {"checked", "idle"})

\* the same for a server whose response ends
FiniteResponseTerminates ==
    (pc = "await" /\ ~stream.endless) ~> (pc \in {"checked", "idle"})

\* C15: errorToString gives every enumerator of POTAError a description
\* other than the text of the default label, and gives two different
\* enumerators two different descriptions.
C15_EveryErrorHasItsOwnDescription ==
    out # <<>> =>
        /\ out[1] # "Undefined error"
        /\ arg[1] # arg[2] => out[1] # out[2]

\* the canonical message of a response that carries none of the fields
ALL_DEFAULTS_MESSAGE ==
    <<"f", "a", "l", "s", "e", ":", ":", ":", ":", ":", ":", "0">>

\* the members of the response that are character strings
StringMembers ==
    {"url", "version", "checksum", "protocol_version", "notes", "error"}

\* the extracted value of a string member
Extracted(d, key) ==
    CASE key = "url" -> d.url
      [] key = "version" -> d.version
      [] key = "checksum" -> d.checksum
      [] key = "protocol_version" -> d.protocol_version
      [] key = "notes" -> d.notes
      [] key = "error" -> d.errorMsg

\* checkOTAUpdate holds the fields extracted from a decodable response
Extraction ==
    /\ pc \in {"errcheck", "verify", "decide", "checked", "performed"}
    /\ InHist("parse")
    /\ Decodable

\* C16: in a check that has decoded a response, a missing update member is
\* extracted as false, a missing string member as the empty string and a
\* missing timestamp as "0"; a check of a response without update does not
\* return SUCCESS and does not invoke the updater; and the token generated
\* for a response that carries no field of the message is the token of
\* "false::::::0".
C16_MissingFieldsTakeDefaults ==
    Extraction =>
        /\ "update" \notin resp.present =>
              /\ doc.update = FALSE
              /\ pc # "performed"
              /\ pc = "checked" => err # "SUCCESS"
              /\ ~InHist("perform")
        /\ \A key \in StringMembers \ resp.present : Extracted(doc, key) = <<>>
        /\ "timestamp" \notin resp.present => doc.timestampStr = <<"0">>
        /\ (resp.present \subseteq {"server_token"} /\ InHist("generate")) =>
              expectedToken = HmacToken(serverSecret, ALL_DEFAULTS_MESSAGE)

C16_Witness ==
    /\ pc = "checked"
    /\ resp.kind = "object"
    /\ resp.present = {"server_token"}
    /\ resp.server_token = HmacToken(serverSecret, ALL_DEFAULTS_MESSAGE)
    /\ InHist("decide")
    /\ err = "NO_UPDATE_AVAILABLE"

\* the response of the server has an empty header line
HasBlankLine == ScanBytes("bol", Flatten(stream.segs)) = "end"

\* C17: when the read of the body begins on a response that has an empty
\* header line, the header loop has consumed that line ("\r\n" on its own),
\* whatever the length of the header lines and however the bytes arrive.
C17_BodyReadAfterBlankLine == (pc = "read" /\ HasBlankLine) => scan = "end"

\* the items of the request in the order of the protocol
REQUEST_ORDER ==
    <<"request_line", "host", "content_type", "content_length_label",
      "content_length", "connection_close", "blank_line", "body">>

\* C18: once the request is sent, the channel carries the request line, the
\* headers, the blank line and the body in this order, the Content-Length
\* value is the length of the serialized body, and the bytes written after
\* the blank line are as many as that value.
C18_RequestFraming ==
    (InHist("send") /\ pc # "idle") =>
        LET body == RequestBody(deviceType, firmwareVersion, authToken)
        IN  /\ Len(wire) = Len(REQUEST_ORDER)
            /\ \A i \in 1..Len(wire) : wire[i].item = REQUEST_ORDER[i]
            /\ wire[5].n = Len(body)
            /\ wire[5].n = bodyLen
            /\ wire[8].bytes = wire[5].n

\* the steps of a check in the order of the code, with the updater last
PHASE_ORDER ==
    <<"connect", "build", "send", "await", "headers", "read", "stop", "parse",
      "errcheck", "generate", "compare", "decide", "perform">>

\* h is the first n steps of the order
FirstPhases(h, n) == h = SubSeq(PHASE_ORDER, 1, n)

\* the number of steps taken when the check fails with e
ExitAfter(e) ==
    CASE e = "CONNECTION_FAILED" -> 1
      [] e = "BUFFER_OVERFLOW_RESPONSE" -> 7
      [] e = "JSON_PARSE_FAILED" -> 8
      [] e = "SERVER_ERROR_4XX" -> 9
      [] e = "TOKEN_GENERATION_FAILED" -> 10
      [] e = "TOKEN_MISMATCH" -> 11
      [] e = "NO_UPDATE_AVAILABLE" -> 12
      [] OTHER -> 0

\* C19: the steps a check has taken are an initial part of the order
\* connect, build, send, await, read headers, read body, close, parse,
\* error check, generate, compare, decide (or connect, build, close when
\* the request does not fit); a check that fails has taken exactly the steps
\* up to the one that failed; and whenever the response is parsed, the
\* token verified or the decision taken, the channel has been closed.
C19_PhasesInOrder ==
    /\ \/ \E n \in 0..Len(PHASE_ORDER) : FirstPhases(hist, n)
       \/ hist = <<"connect", "build", "stop">>
    /\ (pc = "checked" /\ err \notin {"SUCCESS", "BUFFER_OVERFLOW_REQUEST"}) =>
          (ExitAfter(err) > 0 /\ FirstPhases(hist, ExitAfter(err)))
    /\ (pc = "checked" /\ err = "BUFFER_OVERFLOW_REQUEST") =>
          hist = <<"connect", "build", "stop">>
    /\ (pc = "checked" /\ err = "SUCCESS") => FirstPhases(hist, 12)
    /\ (\/ pc \in {"parse", "errcheck", "verify", "decide"}
        \/ InHist("parse")
        \/ InHist("generate")
        \/ InHist("decide")) => (InHist("stop") /\ ~connected)

C19_Witness ==
    /\ pc = "checked"
    /\ err = "SUCCESS"
    /\ hist = SubSeq(PHASE_ORDER, 1, 12)
    /\ ~connected

\* the parts joined by colons
RECURSIVE ColonJoin(_)
ColonJoin(parts) ==
    IF Len(parts) = 1 THEN parts[1]
    ELSE parts[1] \o <<":">> \o ColonJoin(Tail(parts))

\* the fields f in the order of the protocol, joined by colons
JoinedFields(f) ==
    ColonJoin(<<IF f.update THEN <<"t", "r", "u", "e">>
                ELSE <<"f", "a", "l", "s", "e">>,
                f.version, f.url, f.checksum, f.protocol_version, f.notes,
                FormatLong(f.timestamp)>>)

\* both tokens were generated
BothGenerated ==
    out # <<>> /\ out[1].err = "SUCCESS" /\ out[2].err = "SUCCESS"

\* C20: a generated token is the HMAC, under the secret, of update
\* ("true"/"false"), version, url, checksum, protocol_version, notes and the
\* decimal timestamp joined by colons in this order, and the messages of two
\* sets of fields that differ in one field differ.
C20_CanonicalMessage ==
    out # <<>> =>
        /\ \A i \in 1..2 :
              out[i].err = "SUCCESS" =>
                /\ out[i].token.hmac
                /\ out[i].token.key = SECRET_A
                /\ out[i].token.text = JoinedFields(arg[i])
        /\ BothGenerated => out[1].token.text # out[2].token.text

C20_Witness ==
    /\ BothGenerated
    /\ arg[1].version = VERSION_COLON
    /\ arg[1].notes = <<":">>
    /\ arg[1].timestamp = 10
    /\ arg[2].timestamp = 1000

\* C21: whenever the updater is invoked, the url it is given is, character
\* for character, the url of the response whose token was verified, whatever
\* the length of that url.
C21_UpdaterGetsVerifiedUrl ==
    (pc = "performed" /\ InHist("perform")) =>
        /\ resp.server_token = TokenFor(doc, serverSecret)
        /\ updaterUrl = resp.url

\* the characters of url between "https://" and the next '/', ':' or the end
HostOf(url) ==
    LET rest == SubSeq(url, 9, Len(url))
        stops == {i \in 1..Len(rest) : rest[i] \in {"/", ":"}}
        first == IF stops = {} THEN Len(rest) + 1
                 ELSE CHOOSE i \in stops : \A j \in stops : i <= j
    IN  SubSeq(rest, 1, first - 1)

\* the name of the update service
SERVICE_HOST ==
    <<"w", "w", "w", ".", "p", "l", "e", "a", "s", "e", "d", "o", "n", "t",
      "c", "o", "d", "e", ".", "c", "o", "m">>

\* C22: whenever the check returns SUCCESS, the url of the response begins
\* with "https://" and its host, the characters up to the next '/', ':' or
\* the end, is the name of the update service and nothing more.
C22_ProceedOnlyToServiceHost ==
    (pc = "checked" /\ err = "SUCCESS") =>
        /\ SubSeq(resp.url, 1, 8) = <<"h", "t", "t", "p", "s", ":", "/", "/">>
        /\ HostOf(resp.url) = SERVICE_HOST

\* C23: the tokens generated, under one secret, for two sets of fields
\* that differ in at least one field are tokens of different messages, so
\* that the token of the one is not the token of the other.
C23_CanonicalizationInjective ==
    (BothGenerated /\ arg[1] # arg[2]) =>
        /\ out[1].token.text # out[2].token.text
        /\ out[1].token # out[2].token

\* field is a non-empty string shorter than size
StoredField(field, size) ==
    field # <<"NULL">> /\ Len(field) > 0 /\ Len(field) < size

\* the four stored fields are non-empty and shorter than 32, 32, 64 and 65
ConfigStored ==
    /\ StoredField(deviceType, 32)
    /\ StoredField(firmwareVersion, 32)
    /\ StoredField(authToken, 64)
    /\ StoredField(serverSecret, 65)

\* C24: the client reference becomes set only in a begin or beginClient
\* that returns SUCCESS; a checkAndPerformOTA called while it is not set
\* returns CLIENT_NOT_INITIALIZED at once, with no connection, nothing sent
\* and the updater not invoked; and in every state in which the reference
\* is set, the four stored fields are non-empty and shorter than their
\* capacities.
C24_NoCheckBeforeInit ==
    [][/\ (~client /\ client') =>
             (lastCall' \in {"begin", "beginClient"} /\ result' = "SUCCESS")
       /\ (pc = "idle" /\ ~client /\ lastCall' = "checkAndPerformOTA") =>
             /\ result' = "CLIENT_NOT_INITIALIZED"
             /\ pc' = "idle"
             /\ hist' = <<>>
             /\ wire' = <<>>
             /\ updaterUrl' = <<>>
       /\ ~client' => (pc' = "idle" /\ ~connected')
       /\ client' => ConfigStored']_vars

C24_Witness ==
    /\ CheckDone
    /\ ~client
    /\ result = "CLIENT_NOT_INITIALIZED"
    /\ hist = <<>>
    /\ ~connected

====
